---- MODULE Spec2Model ----
(***************************************************************************)
(* Interview orchestration of backend/server.py: the interviews and        *)
(* candidates collections and the request handlers that read and write     *)
(* them.  Every handler is an async function: it reads the interview with  *)
(* find_one, checks its guards on that copy, and later writes with         *)
(* update_one; other requests run between the awaits.  A request is a      *)
(* process that walks read -> write -> (candidate write) -> done.          *)
(***************************************************************************)
EXTENDS Integers, Sequences, FiniteSets, TLC

\* ---------------------------------------------------------------- bounds
MaxInterviews == 2
MaxSlots == 2
MaxRound == 2
MaxCmds == 3

Procs == {"p1", "p2"}
PrecedesProc(q, p) == q = "p1" /\ p = "p2"
Candidates == {"c1", "c2"}

\* ------------------------------------------------------------- vocabulary
AwaitingConfirmation == "Awaiting Candidate Confirmation"
Confirmed == "Confirmed"
Scheduled == "Scheduled"
Completed == "Completed"
NoShow == "No Show"
Cancelled == "Cancelled"
Passed == "Passed"
Failed == "Failed"
Draft == "Draft"

InterviewStatuses ==
    {Draft, AwaitingConfirmation, Confirmed, Scheduled, Completed,
     NoShow, Cancelled, Passed, Failed}

\* None of a nullable number / string field
NoneNum == 0
NoneStr == "None"
NowStamp == "now"

\* The one job and tenant the modelled candidates belong to, and a foreign tenant.
JobOf(c) == "job1"
ClientOfJob(j) == "clientA"
Callers == {"admin", "clientA", "clientB"}
IsClientUser(caller) == caller # "admin"

\* get_current_user / tenant check shared by the recruiter-side handlers
TenantDenied(caller, doc) == IsClientUser(caller) /\ doc.client_id # caller

\* --------------------------------------------------------------- variables
\* faults is the condition of the collaborators during the session: NoFault, or
\* "email" when email delivery fails, or "audit" when the audit store fails
VARIABLES interviews, candidates, proc, resp, budget, faults
vars == <<interviews, candidates, proc, resp, budget, faults>>

NoFault == "none"

InterviewIds == 1..MaxInterviews
Exists(iid) == iid \in DOMAIN interviews

\* ------------------------------------------------------------------ slots
StartOf(k) == 9 + k
EndOf(k) == StartOf(k) + 1

\* create_interview drawing one slot_id for all the slots of the request
NewSlotSameId(k) ==
    [slot_id |-> 1, start_time |-> StartOf(k), end_time |-> EndOf(k),
     is_available |-> TRUE]

\* slot_id is a fresh uuid: the k-th fresh value of the request is k
NewSlot(k) ==
    [slot_id |-> k, start_time |-> StartOf(k), end_time |-> EndOf(k),
     is_available |-> TRUE]

ProcessSlots(n) == [k \in 1..n |-> NewSlot(k)]

\* the "for slot in proposed_slots: if slot_id == ...: selected_slot = slot; break" loop
RECURSIVE FindSlotFrom(_, _, _)
FindSlotFrom(slots, sid, k) ==
    IF k > Len(slots) THEN 0
    ELSE IF slots[k].slot_id = sid THEN k
    ELSE FindSlotFrom(slots, sid, k + 1)

FindSlot(slots, sid) == FindSlotFrom(slots, sid, 1)

\* the "updated_slots" loop: the slot list of the copy read, with the chosen slot taken
MarkUnavailable(slots, sid) ==
    [k \in 1..Len(slots) |->
        IF slots[k].slot_id = sid THEN [slots[k] EXCEPT !.is_available = FALSE]
        ELSE slots[k]]

\* -------------------------------------------------------------- documents
NewInterview(cand, round, nslots, caller) ==
    [job_id |-> JobOf(cand),
     candidate_id |-> cand,
     client_id |-> ClientOfJob(JobOf(cand)),
     proposed_slots |-> ProcessSlots(nslots),
     selected_slot_id |-> NoneNum,
     scheduled_start_time |-> NoneNum,
     scheduled_end_time |-> NoneNum,
     interview_status |-> AwaitingConfirmation,
     invite_sent |-> FALSE,
     invite_sent_by |-> NoneStr,
     candidate_confirmation_timestamp |-> NoneStr,
     no_show_flag |-> FALSE,
     no_show_count |-> 0,
     interview_round |-> round]

NewCandidate ==
    [status |-> "NEW",
     current_round |-> 1,
     no_show_count |-> 0,
     last_interview_passed |-> NoneNum,
     rejected_at_round |-> NoneNum,
     total_rounds_cleared |-> NoneNum]

\* -------------------------------------------------------------- processes
\* A request handler between its find_one and its last update_one.
IdleProc ==
    [pc |-> "idle", op |-> NoneStr, iid |-> 0, slot |-> 0, confirmed |-> FALSE,
     newstatus |-> NoneStr, caller |-> NoneStr, snap |-> <<>>, rivals |-> {}]

\* The response most recently returned to a caller; rivals are the successful
\* responses returned, while this request was running, to other requests on the
\* same interview.
NoResp ==
    [op |-> NoneStr, iid |-> 0, slot |-> 0, result |-> NoneStr, read |-> NoneStr,
     rivals |-> {}, audit |-> <<>>, stats |-> <<>>]

InFlight(q) == proc[q].pc # "idle"

\* requests are served by the first free worker
CanStart(p) ==
    /\ proc[p].pc = "idle"
    /\ budget > 0
    /\ \A q \in Procs : (proc[q].pc = "idle") => (p = q \/ ~PrecedesProc(q, p))

\* p's handler has read `snap`, passed its guards and goes on to write
Started(p, op, iid, slot, confirmed, newstatus, caller, snap) ==
    [proc EXCEPT ![p] =
        [pc |-> "write", op |-> op, iid |-> iid, slot |-> slot, confirmed |-> confirmed,
         newstatus |-> newstatus, caller |-> caller, snap |-> <<snap>>, rivals |-> {}]]

\* action_type of the handler's log_audit_event call
AuditAction(op) ==
    CASE op = "create" -> "INTERVIEW_CREATE"
      [] op = "update" -> "INTERVIEW_UPDATE"
      [] op \in {"book", "portal_book", "public_book"} -> "INTERVIEW_SLOT_BOOKED"
      [] op = "send_invite" -> "INTERVIEW_INVITE_SENT"
      [] op = "mark_completed" -> "INTERVIEW_COMPLETED"
      [] op = "mark_no_show" -> "INTERVIEW_NO_SHOW"
      [] op = "cancel" -> "INTERVIEW_CANCELLED"
      [] op = "move_to_next_round" -> "INTERVIEW_PASSED"
      [] op = "reject" -> "INTERVIEW_FAILED"
      [] op = "initiate_hiring" -> "HIRING_INITIATED"

\* The entry log_audit_event inserts. entity_id is kept in entity_interview when the
\* entity is an interview and in entity_candidate when it is a candidate;
\* initiate_hiring logs the candidate, every other handler the interview.
AuditEvent(op, iid) ==
    IF op = "initiate_hiring"
    THEN [action_type |-> AuditAction(op), entity_type |-> "candidate",
          entity_interview |-> NoneNum,
          entity_candidate |-> interviews[iid].candidate_id]
    ELSE IF op = "send_invite"
    THEN [action_type |-> AuditAction(op), entity_type |-> "interview",
          entity_interview |-> iid, entity_candidate |-> NoneStr,
          email_sent |-> (faults # "email")]
    ELSE [action_type |-> AuditAction(op), entity_type |-> "interview",
          entity_interview |-> iid, entity_candidate |-> NoneStr]

\* what the command appended to audit_logs: one entry after its last write, none
\* when it raised before or when the insert failed
AuditEntries(op, iid, result) ==
    IF result = "ok" THEN <<AuditEvent(op, iid)>> ELSE <<>>

\* the handler's last write is done: log_audit_event raises when the audit store
\* fails, and the request ends with a server error
Outcome(result) ==
    IF result = "ok" /\ faults = "audit" THEN "ServerError" ELSE result

\* a response; read is the interview_status of the copy the handler read
Response(op, iid, slot, result, read, rivals) ==
    [op |-> op, iid |-> iid, slot |-> slot, result |-> result, read |-> read,
     rivals |-> rivals, audit |-> AuditEntries(op, iid, result), stats |-> <<>>]

ReadStatus(iid) == IF Exists(iid) THEN interviews[iid].interview_status ELSE NoneStr

\* the running requests on interview iid learn that a rival returned success
NoteRival(p, op, iid, slot, result) ==
    [q \in Procs |->
        IF q = p THEN IdleProc
        ELSE IF InFlight(q) /\ proc[q].iid = iid /\ result = "ok"
             THEN [proc[q] EXCEPT !.rivals = @ \cup {[op |-> op, slot |-> slot]}]
        ELSE proc[q]]

\* p's handler returns after its last write
Return(p, result) ==
    /\ resp' = Response(proc[p].op, proc[p].iid, proc[p].slot, Outcome(result),
                         proc[p].snap[1].interview_status, proc[p].rivals)
    /\ proc' = NoteRival(p, proc[p].op, proc[p].iid, proc[p].slot, Outcome(result))

\* p's handler raises HTTPException (or returns) straight after its read
Reject(p, op, iid, slot, result) ==
    /\ resp' = Response(op, iid, slot, result, ReadStatus(iid), {})
    /\ UNCHANGED proc

\* p's handler raises HTTPException before it reads the interview
RejectUnread(p, op, iid, slot, result) ==
    /\ resp' = Response(op, iid, slot, result, NoneStr, {})
    /\ UNCHANGED proc

Snap(p) == proc[p].snap[1]

Init ==
    /\ interviews = <<>>
    /\ candidates = [c \in Candidates |-> NewCandidate]
    /\ proc = [p \in Procs |-> IdleProc]
    /\ resp = NoResp
    /\ budget = MaxCmds
    /\ faults = NoFault

\* ------------------------------------------------------ create_interview
CreateInterview(p, caller, cand, round, nslots) ==
    /\ CanStart(p)
    /\ budget' = budget - 1
    /\ UNCHANGED faults
    /\ IF IsClientUser(caller) /\ ClientOfJob(JobOf(cand)) # caller
       THEN /\ RejectUnread(p, "create", 0, 0, "Forbidden")
            /\ UNCHANGED <<interviews, candidates>>
       ELSE /\ Len(interviews) < MaxInterviews
            /\ interviews' = Append(interviews, NewInterview(cand, round, nslots, caller))
            /\ resp' = Response("create", Len(interviews) + 1, 0, Outcome("ok"), NoneStr, {})
            /\ UNCHANGED <<candidates, proc>>

\* ----------------------------------------------------- book_interview_slot
\* book_interview_slot without its "Slot is no longer available" guard
BookGuardNoAvailability(doc, sid) ==
    IF doc.interview_status # AwaitingConfirmation THEN "NotAwaiting"
    ELSE IF FindSlot(doc.proposed_slots, sid) = 0 THEN "SlotNotFound"
    ELSE "ok"

\* the guards of book_interview_slot on the copy it read
BookGuard(doc, sid) ==
    IF doc.interview_status # AwaitingConfirmation THEN "NotAwaiting"
    ELSE IF FindSlot(doc.proposed_slots, sid) = 0 THEN "SlotNotFound"
    ELSE IF ~doc.proposed_slots[FindSlot(doc.proposed_slots, sid)].is_available
         THEN "SlotUnavailable"
    ELSE "ok"

\* update_data of book_interview_slot, $set on the stored document
BookUpdate(doc, snap, sid, confirmed) ==
    [doc EXCEPT
        !.selected_slot_id = sid,
        !.scheduled_start_time = snap.proposed_slots[FindSlot(snap.proposed_slots, sid)].start_time,
        !.scheduled_end_time = snap.proposed_slots[FindSlot(snap.proposed_slots, sid)].end_time,
        !.interview_status = IF confirmed THEN Confirmed ELSE AwaitingConfirmation,
        !.candidate_confirmation_timestamp = IF confirmed THEN NowStamp ELSE NoneStr,
        !.proposed_slots = MarkUnavailable(snap.proposed_slots, sid)]

BookStart(p, caller, iid, sid, confirmed) ==
    /\ CanStart(p)
    /\ budget' = budget - 1
    /\ UNCHANGED faults
    /\ UNCHANGED <<interviews, candidates>>
    /\ IF ~Exists(iid) THEN Reject(p, "book", iid, sid, "NotFound")
       ELSE IF BookGuard(interviews[iid], sid) # "ok"
            THEN Reject(p, "book", iid, sid, BookGuard(interviews[iid], sid))
       ELSE /\ proc' = Started(p, "book", iid, sid, confirmed, NoneStr, NoneStr, interviews[iid])
            /\ UNCHANGED resp

BookWrite(p) ==
    /\ proc[p].pc = "write" /\ proc[p].op = "book"
    /\ interviews' = [interviews EXCEPT ![proc[p].iid] =
                        BookUpdate(@, Snap(p), proc[p].slot, proc[p].confirmed)]
    /\ Return(p, "ok")
    /\ UNCHANGED <<candidates, budget, faults>>

\* ------------------------------------------------ candidate_portal_book_slot
\* candidate_portal_book_slot without its "Slot is no longer available" guard
PortalBookGuardNoAvailability(doc, sid) ==
    IF doc.interview_status # AwaitingConfirmation THEN "NotAwaiting"
    ELSE IF FindSlot(doc.proposed_slots, sid) = 0 THEN "SlotNotFound"
    ELSE "ok"

PortalBookGuard(doc, sid) ==
    IF doc.interview_status # AwaitingConfirmation THEN "NotAwaiting"
    ELSE IF FindSlot(doc.proposed_slots, sid) = 0 THEN "SlotNotFound"
    ELSE IF ~doc.proposed_slots[FindSlot(doc.proposed_slots, sid)].is_available
         THEN "SlotUnavailable"
    ELSE "ok"

PortalBookUpdate(doc, snap, sid) ==
    [doc EXCEPT
        !.selected_slot_id = sid,
        !.scheduled_start_time = snap.proposed_slots[FindSlot(snap.proposed_slots, sid)].start_time,
        !.scheduled_end_time = snap.proposed_slots[FindSlot(snap.proposed_slots, sid)].end_time,
        !.interview_status = Confirmed,
        !.candidate_confirmation_timestamp = NowStamp,
        !.proposed_slots = MarkUnavailable(snap.proposed_slots, sid)]

\* who: the candidate record the logged-in portal user is linked to
PortalBookStart(p, who, iid, sid) ==
    /\ CanStart(p)
    /\ budget' = budget - 1
    /\ UNCHANGED faults
    /\ UNCHANGED <<interviews, candidates>>
    /\ IF ~Exists(iid) THEN Reject(p, "portal_book", iid, sid, "NotFound")
       ELSE IF interviews[iid].candidate_id # who
            THEN Reject(p, "portal_book", iid, sid, "Forbidden")
       ELSE IF PortalBookGuard(interviews[iid], sid) # "ok"
            THEN Reject(p, "portal_book", iid, sid, PortalBookGuard(interviews[iid], sid))
       ELSE /\ proc' = Started(p, "portal_book", iid, sid, TRUE, NoneStr, NoneStr, interviews[iid])
            /\ UNCHANGED resp

PortalBookWrite(p) ==
    /\ proc[p].pc = "write" /\ proc[p].op = "portal_book"
    /\ interviews' = [interviews EXCEPT ![proc[p].iid] =
                        PortalBookUpdate(@, Snap(p), proc[p].slot)]
    /\ Return(p, "ok")
    /\ UNCHANGED <<candidates, budget, faults>>

\* ---------------------------------------------------------- public_book_slot
PublicBookGuard(doc, sid) ==
    IF doc.interview_status # AwaitingConfirmation THEN "NotAwaiting"
    ELSE IF FindSlot(doc.proposed_slots, sid) = 0 THEN "SlotNotFound"
    ELSE IF ~doc.proposed_slots[FindSlot(doc.proposed_slots, sid)].is_available
         THEN "SlotUnavailable"
    ELSE "ok"

PublicBookUpdate(doc, snap, sid) ==
    [doc EXCEPT
        !.selected_slot_id = sid,
        !.scheduled_start_time = snap.proposed_slots[FindSlot(snap.proposed_slots, sid)].start_time,
        !.scheduled_end_time = snap.proposed_slots[FindSlot(snap.proposed_slots, sid)].end_time,
        !.interview_status = Confirmed,
        !.candidate_confirmation_timestamp = NowStamp,
        !.proposed_slots = MarkUnavailable(snap.proposed_slots, sid)]

\* token_ok: verify_booking_token(interview_id, token)
PublicBookStart(p, token_ok, iid, sid) ==
    /\ CanStart(p)
    /\ budget' = budget - 1
    /\ UNCHANGED faults
    /\ UNCHANGED <<interviews, candidates>>
    /\ IF ~token_ok THEN RejectUnread(p, "public_book", iid, sid, "Forbidden")
       ELSE IF ~Exists(iid) THEN Reject(p, "public_book", iid, sid, "NotFound")
       ELSE IF PublicBookGuard(interviews[iid], sid) # "ok"
            THEN Reject(p, "public_book", iid, sid, PublicBookGuard(interviews[iid], sid))
       ELSE /\ proc' = Started(p, "public_book", iid, sid, TRUE, NoneStr, NoneStr, interviews[iid])
            /\ UNCHANGED resp

PublicBookWrite(p) ==
    /\ proc[p].pc = "write" /\ proc[p].op = "public_book"
    /\ interviews' = [interviews EXCEPT ![proc[p].iid] =
                        PublicBookUpdate(@, Snap(p), proc[p].slot)]
    /\ Return(p, "ok")
    /\ UNCHANGED <<candidates, budget, faults>>

\* ------------------------------------------- handlers with the tenant check
\* move_to_next_round: only a Completed or Scheduled interview can be passed
MoveGuardAbsent(doc) == "ok"

MoveGuard(doc) ==
    IF doc.interview_status \notin {Completed, Scheduled} THEN "NotCompleted" ELSE "ok"

\* the status guard of the handler; only move_to_next_round has one
StatusGuard(op, doc) ==
    IF op = "move_to_next_round" THEN MoveGuard(doc) ELSE "ok"

\* find_one, 404, tenant check, then the handler's own guard on the copy read
ReadAndCheck(p, op, caller, iid, newstatus) ==
    /\ CanStart(p)
    /\ budget' = budget - 1
    /\ UNCHANGED faults
    /\ UNCHANGED <<interviews, candidates>>
    /\ IF ~Exists(iid) THEN Reject(p, op, iid, 0, "NotFound")
       ELSE IF TenantDenied(caller, interviews[iid]) THEN Reject(p, op, iid, 0, "Forbidden")
       ELSE IF StatusGuard(op, interviews[iid]) # "ok"
            THEN Reject(p, op, iid, 0, StatusGuard(op, interviews[iid]))
       ELSE /\ proc' = Started(p, op, iid, 0, FALSE, newstatus,
                                 IF op = "send_invite" THEN caller ELSE NoneStr,
                                 interviews[iid])
            /\ UNCHANGED resp

\* update_one on the interview; the handler goes on to its candidate write or returns
WriteInterview(p, op, newdoc, last) ==
    /\ proc[p].pc = "write" /\ proc[p].op = op
    /\ interviews' = [interviews EXCEPT ![proc[p].iid] = newdoc]
    /\ UNCHANGED <<candidates, budget, faults>>
    /\ IF last THEN Return(p, "ok")
       ELSE /\ proc' = [proc EXCEPT ![p].pc = "write_cand"]
            /\ UNCHANGED resp

\* update_one on the candidate of the interview read, then return
WriteCandidate(p, op, newcand) ==
    /\ proc[p].pc = "write_cand" /\ proc[p].op = op
    /\ candidates' = [candidates EXCEPT ![Snap(p).candidate_id] = newcand]
    /\ UNCHANGED <<interviews, budget, faults>>
    /\ Return(p, "ok")

\* ------------------------------------------------------- update_interview
\* update_dict = model_dump(exclude_unset=True): interview_status when it was sent
UpdateDoc(doc, newstatus) ==
    IF newstatus = NoneStr THEN doc ELSE [doc EXCEPT !.interview_status = newstatus]

UpdateStart(p, caller, iid, newstatus) ==
    ReadAndCheck(p, "update", caller, iid, newstatus)

UpdateWrite(p) ==
    WriteInterview(p, "update", UpdateDoc(interviews[proc[p].iid], proc[p].newstatus), TRUE)

\* ---------------------------------------------------- send_interview_invite
\* send_interview_invite storing the invite only when the email was delivered
SendInviteDocDelivered(doc, snap, caller) ==
    IF faults = "email" THEN doc
    ELSE [doc EXCEPT
            !.invite_sent = TRUE,
            !.invite_sent_by = caller,
            !.interview_status =
                IF snap.interview_status = Confirmed THEN Scheduled ELSE snap.interview_status]

\* send_email returns success False when delivery fails, and the handler goes on
\* to its update_one without looking at it
SendInviteDoc(doc, snap, caller) ==
    [doc EXCEPT
        !.invite_sent = TRUE,
        !.invite_sent_by = caller,
        !.interview_status =
            IF snap.interview_status = Confirmed THEN Scheduled ELSE snap.interview_status]

SendInviteStart(p, caller, iid) ==
    ReadAndCheck(p, "send_invite", caller, iid, NoneStr)

SendInviteWrite(p) ==
    WriteInterview(p, "send_invite",
                   SendInviteDoc(interviews[proc[p].iid], Snap(p), proc[p].caller), TRUE)

\* -------------------------------------------------- mark_interview_completed
\* mark_interview_completed writing Completed only over Scheduled
MarkCompletedDocGuarded(doc) ==
    IF doc.interview_status = Scheduled THEN [doc EXCEPT !.interview_status = Completed]
    ELSE doc

MarkCompletedDoc(doc) == [doc EXCEPT !.interview_status = Completed]

MarkCompletedStart(p, caller, iid) ==
    ReadAndCheck(p, "mark_completed", caller, iid, NoneStr)

\* mark_interview_completed refusing an interview that is already Completed
MarkCompletedWriteOnce(p) ==
    /\ proc[p].pc = "write" /\ proc[p].op = "mark_completed"
    /\ UNCHANGED <<candidates, budget, faults>>
    /\ IF interviews[proc[p].iid].interview_status = Completed
       THEN /\ UNCHANGED interviews
            /\ Return(p, "NotScheduled")
       ELSE /\ interviews' = [interviews EXCEPT ![proc[p].iid] = MarkCompletedDoc(@)]
            /\ Return(p, "ok")

MarkCompletedWrite(p) ==
    WriteInterview(p, "mark_completed", MarkCompletedDoc(interviews[proc[p].iid]), TRUE)

\* ---------------------------------------------------------- cancel_interview
CancelDoc(doc) == [doc EXCEPT !.interview_status = Cancelled]

CancelStart(p, caller, iid) ==
    ReadAndCheck(p, "cancel", caller, iid, NoneStr)

CancelWrite(p) ==
    WriteInterview(p, "cancel", CancelDoc(interviews[proc[p].iid]), TRUE)

\* ---------------------------------------------------- mark_interview_no_show
\* current_no_show_count = interview.get("no_show_count", 0) + 1, from the copy read
NoShowDoc(doc, snap) ==
    [doc EXCEPT
        !.interview_status = NoShow,
        !.no_show_flag = TRUE,
        !.no_show_count = snap.no_show_count + 1]

\* mark_interview_no_show storing the count it computed for the interview
NoShowCandSet(cand) == [cand EXCEPT !.no_show_count = 1]

\* {"$inc": {"no_show_count": 1}} on the stored candidate
NoShowCand(cand) == [cand EXCEPT !.no_show_count = @ + 1]

MarkNoShowStart(p, caller, iid) ==
    ReadAndCheck(p, "mark_no_show", caller, iid, NoneStr)

MarkNoShowWrite(p) ==
    WriteInterview(p, "mark_no_show", NoShowDoc(interviews[proc[p].iid], Snap(p)), FALSE)

MarkNoShowWriteCand(p) ==
    WriteCandidate(p, "mark_no_show", NoShowCand(candidates[Snap(p).candidate_id]))

\* -------------------------------------------------------- move_to_next_round
MoveDoc(doc) == [doc EXCEPT !.interview_status = Passed]

MoveCand(cand, snap, iid) ==
    [cand EXCEPT
        !.status = "IN_PROGRESS",
        !.current_round = snap.interview_round + 1,
        !.last_interview_passed = iid]

MoveStart(p, caller, iid) ==
    ReadAndCheck(p, "move_to_next_round", caller, iid, NoneStr)

MoveWrite(p) ==
    WriteInterview(p, "move_to_next_round", MoveDoc(interviews[proc[p].iid]), FALSE)

MoveWriteCand(p) ==
    WriteCandidate(p, "move_to_next_round",
                   MoveCand(candidates[Snap(p).candidate_id], Snap(p), proc[p].iid))

\* ---------------------------------------------------- reject_after_interview
RejectDoc(doc) == [doc EXCEPT !.interview_status = Failed]

\* reject_after_interview taking the round from the candidate, not the interview
RejectCandOwnRound(cand, snap) ==
    [cand EXCEPT !.status = "REJECTED", !.rejected_at_round = cand.current_round]

RejectCand(cand, snap) ==
    [cand EXCEPT !.status = "REJECTED", !.rejected_at_round = snap.interview_round]

RejectStart(p, caller, iid) ==
    ReadAndCheck(p, "reject", caller, iid, NoneStr)

RejectWrite(p) ==
    WriteInterview(p, "reject", RejectDoc(interviews[proc[p].iid]), FALSE)

RejectWriteCand(p) ==
    WriteCandidate(p, "reject", RejectCand(candidates[Snap(p).candidate_id], Snap(p)))

\* --------------------------------------------- a handler run without overlap
\* the two collections a command reads and writes
Stored == [interviews |-> interviews, candidates |-> candidates]

\* move_to_next_round from its find_one to its last update_one on the store db,
\* called by an admin while no other request runs
RunMove(db, iid) ==
    LET doc == db.interviews[iid]
    IN IF MoveGuard(doc) # "ok" THEN db
       ELSE [interviews |-> [db.interviews EXCEPT ![iid] = MoveDoc(doc)],
             candidates |-> [db.candidates EXCEPT
                                ![doc.candidate_id] = MoveCand(@, doc, iid)]]

\* reject_after_interview likewise
RunReject(db, iid) ==
    LET doc == db.interviews[iid]
    IN [interviews |-> [db.interviews EXCEPT ![iid] = RejectDoc(doc)],
        candidates |-> [db.candidates EXCEPT ![doc.candidate_id] = RejectCand(@, doc)]]

\* ----------------------------------------------------------- initiate_hiring
HireDoc(doc) == [doc EXCEPT !.interview_status = Passed]

HireCand(cand, snap) ==
    [cand EXCEPT !.status = "SELECTED", !.total_rounds_cleared = snap.interview_round]

HireStart(p, caller, iid) ==
    ReadAndCheck(p, "initiate_hiring", caller, iid, NoneStr)

HireWrite(p) ==
    WriteInterview(p, "initiate_hiring", HireDoc(interviews[proc[p].iid]), FALSE)

HireWriteCand(p) ==
    WriteCandidate(p, "initiate_hiring", HireCand(candidates[Snap(p).candidate_id], Snap(p)))

\* ---------------------------------------------- get_interview_pipeline_stats
\* the $match of the aggregate: a client_user sees its own client's interviews,
\* anyone else those of the client_id asked for, or all of them
StatsQuery(caller, client_id) == IF IsClientUser(caller) THEN caller ELSE client_id

Matching(query) ==
    {iid \in DOMAIN interviews : query = NoneStr \/ interviews[iid].client_id = query}

\* the count of the $group of one interview_status
StatusCount(query, st) ==
    Cardinality({iid \in Matching(query) : interviews[iid].interview_status = st})

\* the response with total_interviews adding up the mapped groups only
PipelineStatsMapped(caller, client_id) ==
    LET query == StatsQuery(caller, client_id)
    IN [total_interviews |->
            StatusCount(query, AwaitingConfirmation) + StatusCount(query, Confirmed)
            + StatusCount(query, Scheduled) + StatusCount(query, Completed)
            + StatusCount(query, NoShow) + StatusCount(query, Cancelled),
        awaiting_confirmation |-> StatusCount(query, AwaitingConfirmation),
        confirmed |-> StatusCount(query, Confirmed),
        scheduled |-> StatusCount(query, Scheduled),
        completed |-> StatusCount(query, Completed),
        no_shows |-> StatusCount(query, NoShow),
        cancelled |-> StatusCount(query, Cancelled)]

\* the response; total_interviews adds up every group, mapped or not
PipelineStats(caller, client_id) ==
    LET query == StatsQuery(caller, client_id)
    IN [total_interviews |-> Cardinality(Matching(query)),
        awaiting_confirmation |-> StatusCount(query, AwaitingConfirmation),
        confirmed |-> StatusCount(query, Confirmed),
        scheduled |-> StatusCount(query, Scheduled),
        completed |-> StatusCount(query, Completed),
        no_shows |-> StatusCount(query, NoShow),
        cancelled |-> StatusCount(query, Cancelled)]

\* the client_id query parameter of the request, NoneStr when it is not given
ClientFilters == (Callers \ {"admin"}) \cup {NoneStr}

\* GET /interviews/stats/pipeline: one aggregate read, answered with the counts
GetPipelineStats(p, caller, client_id) ==
    /\ CanStart(p)
    /\ budget' = budget - 1
    /\ UNCHANGED faults
    /\ resp' = [NoResp EXCEPT !.op = "pipeline_stats", !.result = "ok",
                               !.stats = <<PipelineStats(caller, client_id)>>]
    /\ UNCHANGED <<interviews, candidates, proc>>

\* ------------------------------------------------------------ specification
UpdateStatuses == InterviewStatuses \cup {NoneStr}

\* the command surface: every handler but the generic PUT /interviews/{id}
NextCommands ==
    \/ \E p \in Procs, caller \in Callers, cand \in Candidates, round \in 1..MaxRound,
          nslots \in 0..MaxSlots : CreateInterview(p, caller, cand, round, nslots)
    \/ \E p \in Procs, caller \in Callers, iid \in InterviewIds, sid \in 1..(MaxSlots + 1),
          confirmed \in BOOLEAN : BookStart(p, caller, iid, sid, confirmed)
    \/ \E p \in Procs : BookWrite(p)
    \/ \E p \in Procs, who \in Candidates, iid \in InterviewIds, sid \in 1..(MaxSlots + 1) :
          PortalBookStart(p, who, iid, sid)
    \/ \E p \in Procs : PortalBookWrite(p)
    \/ \E p \in Procs, token_ok \in BOOLEAN, iid \in InterviewIds, sid \in 1..(MaxSlots + 1) :
          PublicBookStart(p, token_ok, iid, sid)
    \/ \E p \in Procs : PublicBookWrite(p)
    \/ \E p \in Procs, caller \in Callers, iid \in InterviewIds : SendInviteStart(p, caller, iid)
    \/ \E p \in Procs : SendInviteWrite(p)
    \/ \E p \in Procs, caller \in Callers, iid \in InterviewIds : MarkCompletedStart(p, caller, iid)
    \/ \E p \in Procs : MarkCompletedWrite(p)
    \/ \E p \in Procs, caller \in Callers, iid \in InterviewIds : CancelStart(p, caller, iid)
    \/ \E p \in Procs : CancelWrite(p)
    \/ \E p \in Procs, caller \in Callers, iid \in InterviewIds : MarkNoShowStart(p, caller, iid)
    \/ \E p \in Procs : MarkNoShowWrite(p)
    \/ \E p \in Procs : MarkNoShowWriteCand(p)
    \/ \E p \in Procs, caller \in Callers, iid \in InterviewIds : MoveStart(p, caller, iid)
    \/ \E p \in Procs : MoveWrite(p)
    \/ \E p \in Procs : MoveWriteCand(p)
    \/ \E p \in Procs, caller \in Callers, iid \in InterviewIds : RejectStart(p, caller, iid)
    \/ \E p \in Procs : RejectWrite(p)
    \/ \E p \in Procs : RejectWriteCand(p)
    \/ \E p \in Procs, caller \in Callers, iid \in InterviewIds : HireStart(p, caller, iid)
    \/ \E p \in Procs : HireWrite(p)
    \/ \E p \in Procs : HireWriteCand(p)

\* every handler
Next ==
    \/ NextCommands
    \/ \E p \in Procs, caller \in Callers, iid \in InterviewIds, st \in UpdateStatuses :
          UpdateStart(p, caller, iid, st)
    \/ \E p \in Procs : UpdateWrite(p)

Spec == Init /\ [][Next]_vars

SpecCommands == Init /\ [][NextCommands]_vars

\* ------------------------------------------------- narrower specifications
\* Completion and the commands that move an interview through its statuses, on
\* the interviews of one candidate.
NextComplete ==
    \/ \E p \in Procs, caller \in Callers, nslots \in 0..MaxSlots :
          CreateInterview(p, caller, "c1", 1, nslots)
    \/ \E p \in Procs, caller \in Callers, iid \in InterviewIds, st \in UpdateStatuses :
          UpdateStart(p, caller, iid, st)
    \/ \E p \in Procs : UpdateWrite(p)
    \/ \E p \in Procs, caller \in Callers, iid \in InterviewIds : MarkCompletedStart(p, caller, iid)
    \/ \E p \in Procs : MarkCompletedWrite(p)
    \/ \E p \in Procs, caller \in Callers, iid \in InterviewIds : CancelStart(p, caller, iid)
    \/ \E p \in Procs : CancelWrite(p)

SpecComplete == Init /\ [][NextComplete]_vars

\* Booking by the recruiter-side and the candidate-portal entry points and the
\* generic update, on the interviews of one candidate.
NextBook ==
    \/ \E p \in Procs, caller \in Callers, nslots \in 0..MaxSlots :
          CreateInterview(p, caller, "c1", 1, nslots)
    \/ \E p \in Procs, caller \in Callers, iid \in InterviewIds, sid \in 1..(MaxSlots + 1),
          confirmed \in BOOLEAN : BookStart(p, caller, iid, sid, confirmed)
    \/ \E p \in Procs : BookWrite(p)
    \/ \E p \in Procs, who \in Candidates, iid \in InterviewIds, sid \in 1..(MaxSlots + 1) :
          PortalBookStart(p, who, iid, sid)
    \/ \E p \in Procs : PortalBookWrite(p)
    \/ \E p \in Procs, caller \in Callers, iid \in InterviewIds, st \in UpdateStatuses :
          UpdateStart(p, caller, iid, st)
    \/ \E p \in Procs : UpdateWrite(p)

SpecBook == Init /\ [][NextBook]_vars

\* The commands that decide a candidate's progress through the rounds, on the
\* interviews of one candidate, in a session twice as long.
InitRounds ==
    /\ interviews = <<>>
    /\ candidates = [c \in Candidates |-> NewCandidate]
    /\ proc = [p \in Procs |-> IdleProc]
    /\ resp = NoResp
    /\ budget = 2 * MaxCmds
    /\ faults = NoFault

NextRounds ==
    \/ \E p \in Procs, caller \in Callers, round \in 1..MaxRound :
          CreateInterview(p, caller, "c1", round, 0)
    \/ \E p \in Procs, caller \in Callers, iid \in InterviewIds : MarkCompletedStart(p, caller, iid)
    \/ \E p \in Procs : MarkCompletedWrite(p)
    \/ \E p \in Procs, caller \in Callers, iid \in InterviewIds : MoveStart(p, caller, iid)
    \/ \E p \in Procs : MoveWrite(p)
    \/ \E p \in Procs : MoveWriteCand(p)
    \/ \E p \in Procs, caller \in Callers, iid \in InterviewIds : RejectStart(p, caller, iid)
    \/ \E p \in Procs : RejectWrite(p)
    \/ \E p \in Procs : RejectWriteCand(p)

SpecRounds == InitRounds /\ [][NextRounds]_vars

\* The outcome of an interview: passing it on to the next round or rejecting the
\* candidate, after no-shows and status edits, on the interviews of one candidate.
NextOutcome ==
    \/ \E p \in Procs, caller \in Callers, round \in 1..MaxRound :
          CreateInterview(p, caller, "c1", round, 0)
    \/ \E p \in Procs, caller \in Callers, iid \in InterviewIds, st \in UpdateStatuses :
          UpdateStart(p, caller, iid, st)
    \/ \E p \in Procs : UpdateWrite(p)
    \/ \E p \in Procs, caller \in Callers, iid \in InterviewIds : MarkNoShowStart(p, caller, iid)
    \/ \E p \in Procs : MarkNoShowWrite(p)
    \/ \E p \in Procs : MarkNoShowWriteCand(p)
    \/ \E p \in Procs, caller \in Callers, iid \in InterviewIds : MoveStart(p, caller, iid)
    \/ \E p \in Procs : MoveWrite(p)
    \/ \E p \in Procs : MoveWriteCand(p)
    \/ \E p \in Procs, caller \in Callers, iid \in InterviewIds : RejectStart(p, caller, iid)
    \/ \E p \in Procs : RejectWrite(p)
    \/ \E p \in Procs : RejectWriteCand(p)

SpecOutcome == Init /\ [][NextOutcome]_vars

\* No-shows on the interviews of the candidates, in a session one command longer.
InitNoShow ==
    /\ interviews = <<>>
    /\ candidates = [c \in Candidates |-> NewCandidate]
    /\ proc = [p \in Procs |-> IdleProc]
    /\ resp = NoResp
    /\ budget = MaxCmds + 1
    /\ faults = NoFault

NextNoShow ==
    \/ \E p \in Procs, caller \in Callers, cand \in Candidates :
          CreateInterview(p, caller, cand, 1, 0)
    \/ \E p \in Procs, caller \in Callers, iid \in InterviewIds : MarkNoShowStart(p, caller, iid)
    \/ \E p \in Procs : MarkNoShowWrite(p)
    \/ \E p \in Procs : MarkNoShowWriteCand(p)

SpecNoShow == InitNoShow /\ [][NextNoShow]_vars

\* An interview on its way from creation to completion: booked, invited, marked
\* completed, in a session two commands longer, on interviews of one candidate
\* with one proposed slot.
InitTwice ==
    /\ interviews = <<>>
    /\ candidates = [c \in Candidates |-> NewCandidate]
    /\ proc = [p \in Procs |-> IdleProc]
    /\ resp = NoResp
    /\ budget = MaxCmds + 2
    /\ faults = NoFault

NextTwice ==
    \/ \E p \in Procs, caller \in Callers : CreateInterview(p, caller, "c1", 1, 1)
    \/ \E p \in Procs, caller \in Callers, iid \in InterviewIds, sid \in 1..2,
          confirmed \in BOOLEAN : BookStart(p, caller, iid, sid, confirmed)
    \/ \E p \in Procs : BookWrite(p)
    \/ \E p \in Procs, caller \in Callers, iid \in InterviewIds : SendInviteStart(p, caller, iid)
    \/ \E p \in Procs : SendInviteWrite(p)
    \/ \E p \in Procs, caller \in Callers, iid \in InterviewIds : MarkCompletedStart(p, caller, iid)
    \/ \E p \in Procs : MarkCompletedWrite(p)

SpecTwice == InitTwice /\ [][NextTwice]_vars

\* Creation alone, of interviews of one candidate.
NextCreate ==
    \E p \in Procs, caller \in Callers, round \in 1..MaxRound, nslots \in 0..MaxSlots :
        CreateInterview(p, caller, "c1", round, nslots)

SpecCreate == Init /\ [][NextCreate]_vars

\* ================================================================== claims
\* The three ways to book a slot, on interviews of one candidate that an admin
\* created and books.
NextEntry ==
    \/ \E p \in Procs, nslots \in 0..MaxSlots :
          CreateInterview(p, "admin", "c1", 1, nslots)
    \/ \E p \in Procs, iid \in InterviewIds, sid \in 1..(MaxSlots + 1),
          confirmed \in BOOLEAN : BookStart(p, "admin", iid, sid, confirmed)
    \/ \E p \in Procs : BookWrite(p)
    \/ \E p \in Procs, who \in Candidates, iid \in InterviewIds, sid \in 1..(MaxSlots + 1) :
          PortalBookStart(p, who, iid, sid)
    \/ \E p \in Procs : PortalBookWrite(p)
    \/ \E p \in Procs, token_ok \in BOOLEAN, iid \in InterviewIds, sid \in 1..(MaxSlots + 1) :
          PublicBookStart(p, token_ok, iid, sid)
    \/ \E p \in Procs : PublicBookWrite(p)

SpecEntry == Init /\ [][NextEntry]_vars

\* The dashboard counts over interviews of one candidate whose status is edited
\* or that end in a rejection.
NextStats ==
    \/ \E p \in Procs, caller \in Callers, round \in 1..MaxRound :
          CreateInterview(p, caller, "c1", round, 0)
    \/ \E p \in Procs, caller \in Callers, iid \in InterviewIds, st \in UpdateStatuses :
          UpdateStart(p, caller, iid, st)
    \/ \E p \in Procs : UpdateWrite(p)
    \/ \E p \in Procs, caller \in Callers, iid \in InterviewIds : RejectStart(p, caller, iid)
    \/ \E p \in Procs : RejectWrite(p)
    \/ \E p \in Procs : RejectWriteCand(p)
    \/ \E p \in Procs, caller \in Callers, client_id \in ClientFilters :
          GetPipelineStats(p, caller, client_id)

SpecStats == Init /\ [][NextStats]_vars

\* The collaborators of a session: both work, the email provider fails, or the
\* audit store fails.
Faults == {NoFault, "email", "audit"}

InitFaults ==
    /\ interviews = <<>>
    /\ candidates = [c \in Candidates |-> NewCandidate]
    /\ proc = [p \in Procs |-> IdleProc]
    /\ resp = NoResp
    /\ budget = MaxCmds
    /\ faults \in Faults

\* Booking, inviting, cancelling and marking a no-show on interviews of one
\* candidate with one proposed slot, with a collaborator that may be failing.
NextFaults ==
    \/ \E p \in Procs, caller \in Callers : CreateInterview(p, caller, "c1", 1, 1)
    \/ \E p \in Procs, caller \in Callers, iid \in InterviewIds, sid \in 1..(MaxSlots + 1),
          confirmed \in BOOLEAN : BookStart(p, caller, iid, sid, confirmed)
    \/ \E p \in Procs : BookWrite(p)
    \/ \E p \in Procs, caller \in Callers, iid \in InterviewIds : SendInviteStart(p, caller, iid)
    \/ \E p \in Procs : SendInviteWrite(p)
    \/ \E p \in Procs, caller \in Callers, iid \in InterviewIds : CancelStart(p, caller, iid)
    \/ \E p \in Procs : CancelWrite(p)
    \/ \E p \in Procs, caller \in Callers, iid \in InterviewIds : MarkNoShowStart(p, caller, iid)
    \/ \E p \in Procs : MarkNoShowWrite(p)
    \/ \E p \in Procs : MarkNoShowWriteCand(p)

SpecFaults == InitFaults /\ [][NextFaults]_vars

BookOps == {"book", "portal_book", "public_book"}

SlotsOf(iid) == interviews[iid].proposed_slots
Unavailable(iid) == {k \in DOMAIN SlotsOf(iid) : ~SlotsOf(iid)[k].is_available}

\* p's handler performs its update_one on the interview in this step
WritesInterview(p) == proc[p].pc = "write" /\ proc'[p].pc # "write"

\* a handler is called in this step (its find_one and guards run)
Called == budget' = budget - 1

\* C1: every interview has at most one slot with is_available = FALSE, and when one
\* slot is unavailable selected_slot_id is its slot_id and scheduled_start_time is
\* its start_time.
C1_OneClaimedSlot ==
    \A iid \in DOMAIN interviews :
        /\ Cardinality(Unavailable(iid)) <= 1
        /\ \A k \in Unavailable(iid) :
              /\ interviews[iid].selected_slot_id = SlotsOf(iid)[k].slot_id
              /\ interviews[iid].scheduled_start_time = SlotsOf(iid)[k].start_time

\* C2: a booking that ran concurrently with a successful booking of another slot of
\* the same interview is refused with SlotUnavailable; the two never both succeed.
C2_DistinctSlotRace ==
    (resp.op \in BookOps /\ \E r \in resp.rivals : r.op \in BookOps /\ r.slot # resp.slot)
        => resp.result = "SlotUnavailable"

\* C3: a booking that ran concurrently with a successful booking of the same slot of
\* the same interview is refused with SlotUnavailable and does not overwrite it.
C3_SameSlotRace ==
    (resp.op \in BookOps /\ \E r \in resp.rivals : r.op \in BookOps /\ r.slot = resp.slot)
        => resp.result = "SlotUnavailable"

\* C4: a step changes is_available only for the slot a booking writes, and only from
\* TRUE to FALSE: every other slot keeps the value stored at the moment of the write.
C4_BookFrame ==
    [][\A iid \in DOMAIN interviews : \A k \in DOMAIN SlotsOf(iid) :
          interviews'[iid].proposed_slots[k].is_available # SlotsOf(iid)[k].is_available
          => /\ SlotsOf(iid)[k].is_available
             /\ \E p \in Procs :
                   /\ WritesInterview(p)
                   /\ proc[p].op \in BookOps
                   /\ proc[p].iid = iid
                   /\ proc[p].slot = SlotsOf(iid)[k].slot_id]_vars

\* The transition table of the interview state machine: command, from, to.
TerminalStatuses == {Passed, Failed, NoShow, Cancelled}

TableEdge(op, from, to) ==
    \/ op \in BookOps /\ from = AwaitingConfirmation /\ to = Confirmed
    \/ op = "send_invite" /\ from = Confirmed /\ to = Scheduled
    \/ op = "mark_completed" /\ from = Scheduled /\ to = Completed
    \/ op = "move_to_next_round" /\ from \in {Completed, Scheduled} /\ to = Passed
    \/ op = "mark_no_show" /\ from \notin TerminalStatuses /\ to = NoShow
    \/ op = "cancel" /\ from \notin TerminalStatuses /\ to = Cancelled
    \/ op = "reject" /\ to = Failed
    \/ op = "initiate_hiring" /\ to = Passed

\* C5: every change of interview_status is an edge of the transition table, taken by
\* the command the table names for it.
C5_TableEdgesOnly ==
    [][\A iid \in DOMAIN interviews :
          interviews'[iid].interview_status # interviews[iid].interview_status
          => \E p \in Procs :
                /\ WritesInterview(p)
                /\ proc[p].iid = iid
                /\ TableEdge(proc[p].op, interviews[iid].interview_status,
                             interviews'[iid].interview_status)]_vars

\* C6: mark_completed on an existing interview is never refused because of the
\* interview's status, and its write leaves interview_status = Completed and returns
\* success, whatever status the interview had.
C6_MarkCompletedFromAnyStatus ==
    [][/\ \A p \in Procs :
            (WritesInterview(p) /\ proc[p].op = "mark_completed")
            => /\ interviews'[proc[p].iid].interview_status = Completed
               /\ resp'.op = "mark_completed" /\ resp'.iid = proc[p].iid
               /\ resp'.result = "ok"
       /\ (Called /\ proc' = proc /\ resp'.op = "mark_completed")
            => \/ ~Exists(resp'.iid) /\ resp'.result = "NotFound"
               \/ Exists(resp'.iid) /\ resp'.result = "Forbidden"]_vars

\* C6 witness: mark_completed returned success on an interview it read as still
\* awaiting candidate confirmation, and the interview is Completed.
C6_Witness ==
    /\ resp.op = "mark_completed" /\ resp.result = "ok"
    /\ resp.read = AwaitingConfirmation
    /\ interviews[resp.iid].interview_status = Completed

\* the three cases in which a booking must be refused
BookRefusalCase(doc, sid) ==
    \/ doc.interview_status # AwaitingConfirmation
    \/ \A k \in DOMAIN doc.proposed_slots : doc.proposed_slots[k].slot_id # sid
    \/ \E k \in DOMAIN doc.proposed_slots :
          doc.proposed_slots[k].slot_id = sid /\ ~doc.proposed_slots[k].is_available

\* C7: a book call on an interview that is not awaiting confirmation, or for a slot_id
\* that is not in proposed_slots, or for a slot with is_available = FALSE, returns an
\* error, writes nothing and leaves no write pending.
C7_BookRefusedUnchanged ==
    [][\A p \in Procs, iid \in DOMAIN interviews, sid \in 1..(MaxSlots + 1) :
          (/\ Called
           /\ BookRefusalCase(interviews[iid], sid)
           /\ \/ proc'[p] # proc[p] /\ proc'[p].op \in BookOps
                  /\ proc'[p].iid = iid /\ proc'[p].slot = sid
              \/ proc' = proc /\ resp'.op \in BookOps /\ resp'.iid = iid /\ resp'.slot = sid)
          => /\ proc' = proc
             /\ resp'.op \in BookOps /\ resp'.iid = iid /\ resp'.slot = sid
             /\ resp'.result # "ok"
             /\ resp'.op = "book"
                  => resp'.result \in {"NotAwaiting", "SlotNotFound", "SlotUnavailable"}
             /\ interviews' = interviews]_vars

\* C7 witness: a book call was refused because its slot was already taken, on an
\* interview still awaiting confirmation.
C7_Witness ==
    /\ resp.op = "book" /\ resp.result = "SlotUnavailable"
    /\ resp.read = AwaitingConfirmation
    /\ \E k \in DOMAIN SlotsOf(resp.iid) :
          SlotsOf(resp.iid)[k].slot_id = resp.slot /\ ~SlotsOf(resp.iid)[k].is_available

\* C8: of a cancel and a mark_completed that ran concurrently on one interview, the
\* one that returns second gets a conflict error; they never both return success.
C8_CancelCompleteRace ==
    (/\ resp.op \in {"cancel", "mark_completed"}
     /\ \E r \in resp.rivals : r.op \in {"cancel", "mark_completed"} /\ r.op # resp.op)
        => resp.result = "Conflict"

\* C9: a handler's write on an interview is applied only when the stored
\* interview_status is still the one the handler read; in particular send_invite
\* never stores Scheduled over a Cancelled or No Show written since its read.
C9_NoStaleWrite ==
    [][\A p \in Procs :
          WritesInterview(p)
          => interviews[proc[p].iid].interview_status = Snap(p).interview_status]_vars

RECURSIVE SumNoShow(_, _)
SumNoShow(c, n) ==
    IF n = 0 THEN 0
    ELSE (IF interviews[n].candidate_id = c THEN interviews[n].no_show_count ELSE 0)
         + SumNoShow(c, n - 1)

\* C10: every candidate's no_show_count equals the sum of no_show_count over that
\* candidate's interviews, in every reachable state.
C10_NoShowAggregate ==
    \A c \in Candidates : candidates[c].no_show_count = SumNoShow(c, Len(interviews))

\* p's handler performs its update_one on the candidate in this step
WritesCandidate(p) == proc[p].pc = "write_cand" /\ proc'[p].pc # "write_cand"

\* C12: every interview's no_show_count is 0 or 1, whatever number of mark_no_show
\* commands ran on it.
C12_NoShowCountBinary ==
    \A iid \in DOMAIN interviews : interviews[iid].no_show_count \in {0, 1}

\* C14: once a candidate's status is REJECTED or SELECTED, no step changes it.
C14_TerminalOutcomeAbsorbing ==
    [][\A c \in Candidates :
          candidates[c].status \in {"REJECTED", "SELECTED"}
          => candidates'[c].status = candidates[c].status]_vars

\* C15: no two interviews that are not Cancelled have the same candidate, job and
\* round.
C15_OneInterviewPerRound ==
    \A i, j \in DOMAIN interviews :
        (/\ i # j
         /\ interviews[i].candidate_id = interviews[j].candidate_id
         /\ interviews[i].job_id = interviews[j].job_id
         /\ interviews[i].interview_round = interviews[j].interview_round
         /\ interviews[i].interview_status # Cancelled)
        => interviews[j].interview_status = Cancelled

\* C17: the write of a mark_no_show or a cancel on an interview whose stored status
\* is Passed, Failed, No Show or Cancelled leaves interview_status as it is.
C17_NoExitFromTerminal ==
    [][\A p \in Procs :
          (/\ WritesInterview(p)
           /\ proc[p].op \in {"mark_no_show", "cancel"}
           /\ interviews[proc[p].iid].interview_status \in TerminalStatuses)
          => interviews'[proc[p].iid].interview_status
                = interviews[proc[p].iid].interview_status]_vars

\* C18: move_to_next_round stores Passed on the interview, and its candidate write
\* stores IN_PROGRESS, the interview's id as last_interview_passed, and a
\* current_round one greater than the stored one.
C18_MoveAdvancesOneRound ==
    [][\A p \in Procs :
          /\ (WritesInterview(p) /\ proc[p].op = "move_to_next_round")
             => interviews'[proc[p].iid].interview_status = Passed
          /\ (WritesCandidate(p) /\ proc[p].op = "move_to_next_round")
             => LET c == Snap(p).candidate_id
                IN /\ candidates'[c].status = "IN_PROGRESS"
                   /\ candidates'[c].last_interview_passed = proc[p].iid
                   /\ candidates'[c].current_round = candidates[c].current_round + 1]_vars

\* C13: no step lowers a candidate's current_round, whatever the order in which the
\* candidate's interviews are passed.
C13_RoundNeverDecreases ==
    [][\A c \in Candidates :
          candidates'[c].current_round >= candidates[c].current_round]_vars

\* C19: a move_to_next_round call on an interview whose status is neither Completed
\* nor Scheduled returns an error, leaves no write pending and changes neither the
\* interviews nor the candidates.
C19_MoveRefusedUnchanged ==
    [][\A p \in Procs, iid \in DOMAIN interviews :
          (/\ Called
           /\ interviews[iid].interview_status \notin {Completed, Scheduled}
           /\ \/ proc'[p] # proc[p] /\ proc'[p].op = "move_to_next_round"
                  /\ proc'[p].iid = iid
              \/ proc' = proc /\ resp'.op = "move_to_next_round" /\ resp'.iid = iid)
          => /\ proc' = proc
             /\ resp'.op = "move_to_next_round" /\ resp'.iid = iid
             /\ resp'.result \in {"NotCompleted", "Forbidden"}
             /\ interviews' = interviews
             /\ candidates' = candidates]_vars

\* C19 witness: move_to_next_round was refused on an interview marked No Show, which
\* is still No Show, and the candidate was not moved on.
C19_Witness ==
    /\ resp.op = "move_to_next_round" /\ resp.result = "NotCompleted"
    /\ resp.read = NoShow
    /\ interviews[resp.iid].interview_status = NoShow
    /\ candidates[interviews[resp.iid].candidate_id].status = "NEW"
    /\ candidates[interviews[resp.iid].candidate_id].current_round = 1
    /\ candidates[interviews[resp.iid].candidate_id].last_interview_passed = NoneNum

\* C20: reject is never refused because of the interview's status; its interview
\* write stores Failed, and its candidate write stores REJECTED and the interview's
\* round as rejected_at_round, leaves current_round and no_show_count as stored,
\* and returns success.
C20_RejectOutcome ==
    [][/\ \A p \in Procs :
            /\ (WritesInterview(p) /\ proc[p].op = "reject")
               => interviews'[proc[p].iid].interview_status = Failed
            /\ (WritesCandidate(p) /\ proc[p].op = "reject")
               => LET c == Snap(p).candidate_id
                  IN /\ candidates'[c].status = "REJECTED"
                     /\ candidates'[c].rejected_at_round
                           = interviews[proc[p].iid].interview_round
                     /\ candidates'[c].current_round = candidates[c].current_round
                     /\ candidates'[c].no_show_count = candidates[c].no_show_count
                     /\ resp'.op = "reject" /\ resp'.iid = proc[p].iid
                     /\ resp'.result = "ok"
       /\ (Called /\ proc' = proc /\ resp'.op = "reject")
            => \/ ~Exists(resp'.iid) /\ resp'.result = "NotFound"
               \/ Exists(resp'.iid) /\ resp'.result = "Forbidden"]_vars

\* C20 witness: reject returned success on an interview of the last round it read as
\* No Show; the interview is Failed, the candidate REJECTED at that round, with the
\* current_round and the no_show_count it had.
C20_Witness ==
    /\ resp.op = "reject" /\ resp.result = "ok" /\ resp.read = NoShow
    /\ interviews[resp.iid].interview_status = Failed
    /\ interviews[resp.iid].interview_round = MaxRound
    /\ LET cand == candidates[interviews[resp.iid].candidate_id]
       IN /\ cand.status = "REJECTED"
          /\ cand.rejected_at_round = MaxRound
          /\ cand.current_round = 1
          /\ cand.no_show_count = 1

\* the mark_no_show handlers that perform their candidate write on c in this step
NoShowIncrements(c) ==
    {p \in Procs : /\ WritesCandidate(p)
                   /\ proc[p].op = "mark_no_show"
                   /\ Snap(p).candidate_id = c}

\* C11: every mark_no_show adds exactly one to the stored no_show_count of its
\* candidate, whatever other mark_no_show is running on another interview of that
\* candidate, and nothing else changes the count: no increment is lost.
C11_NoLostIncrement ==
    [][\A c \in Candidates :
          candidates'[c].no_show_count
             = candidates[c].no_show_count + Cardinality(NoShowIncrements(c))]_vars

\* C11 witness: two mark_no_show calls on two different interviews of one candidate
\* are running at once, both have marked their interview and both increments of
\* the candidate's count are still to come.
C11_Witness ==
    \E p, q \in Procs :
        /\ p # q
        /\ proc[p].pc = "write_cand" /\ proc[p].op = "mark_no_show"
        /\ proc[q].pc = "write_cand" /\ proc[q].op = "mark_no_show"
        /\ proc[p].iid # proc[q].iid
        /\ Snap(p).candidate_id = Snap(q).candidate_id
        /\ interviews[proc[p].iid].interview_status = NoShow
        /\ interviews[proc[q].iid].interview_status = NoShow
        /\ candidates[Snap(p).candidate_id].no_show_count = 0

\* the client_id values a caller can ask pipeline_stats for, NoneStr for none
StatsClients == (Callers \ {"admin"}) \cup {NoneStr}

\* C16: a mark_completed call on an interview that is already Completed is not
\* refused because of that; its write, done on an interview it read as Completed and
\* that is still Completed, leaves it Completed, returns success, and leaves every
\* count of pipeline_stats, for every caller and client filter, as it was.
C16_MarkCompletedIdempotent ==
    [][/\ \A p \in Procs :
            (/\ WritesInterview(p)
             /\ proc[p].op = "mark_completed"
             /\ Snap(p).interview_status = Completed
             /\ interviews[proc[p].iid].interview_status = Completed)
            => /\ interviews'[proc[p].iid].interview_status = Completed
               /\ resp'.op = "mark_completed" /\ resp'.iid = proc[p].iid
               /\ resp'.result = "ok"
               /\ \A caller \in Callers, client_id \in StatsClients :
                     PipelineStats(caller, client_id)' = PipelineStats(caller, client_id)
       /\ (/\ Called /\ proc' = proc /\ resp'.op = "mark_completed"
           /\ Exists(resp'.iid)
           /\ interviews[resp'.iid].interview_status = Completed)
            => resp'.result = "Forbidden"]_vars

\* C16 witness: a first mark_completed returned success on an interview it read as
\* Scheduled; a second one on the same interview has read it as Completed, was not
\* refused and is at its write, with the interview counted once as completed.
C16_Witness ==
    /\ resp.op = "mark_completed" /\ resp.result = "ok" /\ resp.read = Scheduled
    /\ \E p \in Procs :
          /\ proc[p].pc = "write" /\ proc[p].op = "mark_completed"
          /\ proc[p].iid = resp.iid
          /\ Snap(p).interview_status = Completed
    /\ interviews[resp.iid].interview_status = Completed
    /\ PipelineStats("admin", NoneStr).completed = 1
    /\ PipelineStats("admin", NoneStr).total_interviews = 1

\* C21: the write of a send_invite stores Scheduled when the stored status is
\* Confirmed and leaves interview_status as stored otherwise, and it stores
\* invite_sent = TRUE and the acting user as invite_sent_by.
C21_InviteOnlyFromConfirmed ==
    [][\A p \in Procs :
          (WritesInterview(p) /\ proc[p].op = "send_invite")
          => /\ interviews'[proc[p].iid].interview_status
                   = IF interviews[proc[p].iid].interview_status = Confirmed
                     THEN Scheduled
                     ELSE interviews[proc[p].iid].interview_status
             /\ interviews'[proc[p].iid].invite_sent
             /\ interviews'[proc[p].iid].invite_sent_by = proc[p].caller]_vars

\* C22: a successful create appends one interview that is awaiting confirmation, has
\* one slot per proposed time window, each with its window's times, available, and
\* with a slot_id no other slot of the interview has; its selected_slot_id and
\* scheduled times are empty, invite_sent and no_show_flag are FALSE and
\* no_show_count is 0.
C22_CreatedInterview ==
    [][\A p \in Procs, caller \in Callers, cand \in Candidates, round \in 1..MaxRound,
         nslots \in 0..MaxSlots :
          (CreateInterview(p, caller, cand, round, nslots) /\ resp'.result = "ok")
          => /\ Len(interviews') = Len(interviews) + 1
             /\ resp'.iid = Len(interviews')
             /\ LET doc == interviews'[resp'.iid]
                IN /\ doc.interview_status = AwaitingConfirmation
                   /\ Len(doc.proposed_slots) = nslots
                   /\ \A k \in 1..nslots :
                         /\ doc.proposed_slots[k].is_available
                         /\ doc.proposed_slots[k].start_time = StartOf(k)
                         /\ doc.proposed_slots[k].end_time = EndOf(k)
                         /\ \A j \in 1..nslots :
                               j # k => doc.proposed_slots[j].slot_id
                                           # doc.proposed_slots[k].slot_id
                   /\ doc.selected_slot_id = NoneNum
                   /\ doc.scheduled_start_time = NoneNum
                   /\ doc.scheduled_end_time = NoneNum
                   /\ ~doc.invite_sent
                   /\ ~doc.no_show_flag
                   /\ doc.no_show_count = 0]_vars

\* C22 witness: the last command was a successful create with the largest number
\* of proposed slots, and the interview it made has that many available slots.
C22_Witness ==
    /\ resp.op = "create" /\ resp.result = "ok"
    /\ Len(interviews) = resp.iid
    /\ Len(SlotsOf(resp.iid)) = MaxSlots
    /\ Unavailable(resp.iid) = {}
    /\ interviews[resp.iid].interview_status = AwaitingConfirmation

\* C23: every stored interview has between 1 and 5 proposed slots.
C23_SlotCountWithinLimits ==
    \A iid \in DOMAIN interviews :
        Len(interviews[iid].proposed_slots) >= 1 /\ Len(interviews[iid].proposed_slots) <= 5

\* the commands that store an interview_status
StatusCommands ==
    {"create", "book", "portal_book", "public_book", "send_invite", "mark_completed",
     "mark_no_show", "cancel", "move_to_next_round", "reject", "initiate_hiring"}

\* C24: a status-changing command that returned success appended exactly one audit
\* entry, and the entity of that entry is the interview the command acted on.
C24_OneAuditEventPerTransition ==
    (resp.op \in StatusCommands /\ resp.result = "ok")
    => /\ Len(resp.audit) = 1
       /\ resp.audit[1].entity_type = "interview"
       /\ resp.audit[1].entity_interview = resp.iid

\* the interview_status the command of p stores with its update_one
CommandStatus(p) ==
    CASE proc[p].op = "book" ->
            IF proc[p].confirmed THEN Confirmed ELSE AwaitingConfirmation
      [] proc[p].op = "send_invite" ->
            IF Snap(p).interview_status = Confirmed THEN Scheduled
            ELSE Snap(p).interview_status
      [] proc[p].op = "cancel" -> Cancelled
      [] proc[p].op = "mark_no_show" -> NoShow

C25_AuditWitness ==
    /\ faults = "audit"
    /\ resp.op = "mark_no_show" /\ resp.result = "ServerError"
    /\ interviews[resp.iid].interview_status = NoShow

\* the interviews pipeline_stats is asked about: those of the caller's client for a
\* client_user, otherwise those of the client asked for, or all of them
InScope(caller, client_id) ==
    {iid \in DOMAIN interviews :
        /\ IsClientUser(caller) => interviews[iid].client_id = caller
        /\ (~IsClientUser(caller) /\ client_id # NoneStr)
           => interviews[iid].client_id = client_id}

InScopeWith(caller, client_id, st) ==
    Cardinality({iid \in InScope(caller, client_id) : interviews[iid].interview_status = st})

BucketSum(st) ==
    st.awaiting_confirmation + st.confirmed + st.scheduled + st.completed
    + st.no_shows + st.cancelled

\* C26: pipeline_stats answers with total_interviews the number of interviews in
\* scope whatever their status, each bucket the number of in-scope interviews in its
\* status, so total_interviews is at least the sum of the buckets; and the call
\* changes no interview and no candidate.
C26_PipelineStatsCounts ==
    [][/\ \A p \in Procs, caller \in Callers, client_id \in ClientFilters :
            GetPipelineStats(p, caller, client_id)
            => LET st == resp'.stats[1]
               IN /\ st.total_interviews = Cardinality(InScope(caller, client_id))
                  /\ st.awaiting_confirmation
                        = InScopeWith(caller, client_id, AwaitingConfirmation)
                  /\ st.confirmed = InScopeWith(caller, client_id, Confirmed)
                  /\ st.scheduled = InScopeWith(caller, client_id, Scheduled)
                  /\ st.completed = InScopeWith(caller, client_id, Completed)
                  /\ st.no_shows = InScopeWith(caller, client_id, NoShow)
                  /\ st.cancelled = InScopeWith(caller, client_id, Cancelled)
                  /\ st.total_interviews >= BucketSum(st)
       /\ (Called /\ resp'.op = "pipeline_stats")
            => interviews' = interviews /\ candidates' = candidates]_vars

\* the stats were answered over a scope holding an interview outside the buckets
C26_Witness ==
    /\ resp.op = "pipeline_stats" /\ resp.result = "ok"
    /\ resp.stats[1].total_interviews > BucketSum(resp.stats[1])

\* C27: two commands on different interviews, run one after the other, leave the
\* same interviews and candidates whichever runs first: two move_to_next_round, two
\* reject, and a move_to_next_round with a reject.
C27_DisjointCommandsCommute ==
    \A i1, i2 \in DOMAIN interviews :
        i1 # i2
        => /\ RunMove(RunMove(Stored, i1), i2) = RunMove(RunMove(Stored, i2), i1)
           /\ RunReject(RunReject(Stored, i1), i2) = RunReject(RunReject(Stored, i2), i1)
           /\ RunReject(RunMove(Stored, i1), i2) = RunMove(RunReject(Stored, i2), i1)

\* the case of two move_to_next_round commands alone
C27_MovesCommute ==
    \A i1, i2 \in DOMAIN interviews :
        i1 # i2 => RunMove(RunMove(Stored, i1), i2) = RunMove(RunMove(Stored, i2), i1)

\* the call of p is refused as a foreign tenant's: access denied, nothing started
Denied(p) == resp'.result = "Forbidden" /\ proc' = proc

\* C28: a mutating command called by a client_user of another client than the
\* interview's is refused with access denied and starts no write: update, book,
\* send_invite, mark_completed, mark_no_show, cancel, move_to_next_round, reject and
\* initiate_hiring.
C28_TenantIsolation ==
    [][\A p \in Procs, caller \in Callers, iid \in DOMAIN interviews :
          TenantDenied(caller, interviews[iid])
          => /\ \A st \in UpdateStatuses : UpdateStart(p, caller, iid, st) => Denied(p)
             /\ \A sid \in 1..(MaxSlots + 1), confirmed \in BOOLEAN :
                   BookStart(p, caller, iid, sid, confirmed) => Denied(p)
             /\ SendInviteStart(p, caller, iid) => Denied(p)
             /\ MarkCompletedStart(p, caller, iid) => Denied(p)
             /\ MarkNoShowStart(p, caller, iid) => Denied(p)
             /\ CancelStart(p, caller, iid) => Denied(p)
             /\ MoveStart(p, caller, iid) => Denied(p)
             /\ RejectStart(p, caller, iid) => Denied(p)
             /\ HireStart(p, caller, iid) => Denied(p)]_vars

\* C28 without book: the eight commands that carry the tenant check
C28_TenantIsolationButBook ==
    [][\A p \in Procs, caller \in Callers, iid \in DOMAIN interviews :
          TenantDenied(caller, interviews[iid])
          => /\ \A st \in UpdateStatuses : UpdateStart(p, caller, iid, st) => Denied(p)
             /\ SendInviteStart(p, caller, iid) => Denied(p)
             /\ MarkCompletedStart(p, caller, iid) => Denied(p)
             /\ MarkNoShowStart(p, caller, iid) => Denied(p)
             /\ CancelStart(p, caller, iid) => Denied(p)
             /\ MoveStart(p, caller, iid) => Denied(p)
             /\ RejectStart(p, caller, iid) => Denied(p)
             /\ HireStart(p, caller, iid) => Denied(p)]_vars

\* the call of p is answered as book_interview_slot with confirmed = true answers
\* it on the same interview and slot: refused with the same error, or started
AnsweredAsBook(p, iid, sid) ==
    IF BookGuard(interviews[iid], sid) = "ok"
    THEN proc'[p].pc = "write" /\ proc'[p].iid = iid /\ proc'[p].slot = sid /\ resp' = resp
    ELSE proc' = proc /\ resp'.result = BookGuard(interviews[iid], sid)

\* the write of p stores what book_interview_slot with confirmed = true stores on
\* the same stored interview, from the same copy read, for the same slot
StoredAsBook(p) ==
    LET new == interviews'[proc[p].iid]
        asbook == BookUpdate(interviews[proc[p].iid], Snap(p), proc[p].slot, TRUE)
    IN /\ new.interview_status = asbook.interview_status
       /\ new.selected_slot_id = asbook.selected_slot_id
       /\ new.scheduled_start_time = asbook.scheduled_start_time
       /\ new.scheduled_end_time = asbook.scheduled_end_time
       /\ new.proposed_slots = asbook.proposed_slots

\* C29: on every interview and slot_id, candidate_portal_book_slot called by the
\* interview's candidate and public_book_slot called with a valid token are refused
\* or accepted exactly as book_interview_slot with confirmed = true is, with the same
\* error, and their write stores the same interview_status, selected_slot_id,
\* scheduled_start_time, scheduled_end_time and proposed_slots as its write does.
C29_BookingEntryPointsAgree ==
    [][/\ \A p \in Procs, iid \in DOMAIN interviews, sid \in 1..(MaxSlots + 1) :
            /\ PortalBookStart(p, interviews[iid].candidate_id, iid, sid)
                  => AnsweredAsBook(p, iid, sid)
            /\ PublicBookStart(p, TRUE, iid, sid) => AnsweredAsBook(p, iid, sid)
            /\ BookStart(p, "admin", iid, sid, TRUE) => AnsweredAsBook(p, iid, sid)
       /\ \A p \in Procs :
            (PortalBookWrite(p) \/ PublicBookWrite(p)) => StoredAsBook(p)]_vars

\* a public booking of a slot was stored and answered
C29_Witness ==
    /\ resp.op = "public_book" /\ resp.result = "ok"
    /\ interviews[resp.iid].interview_status = Confirmed
    /\ interviews[resp.iid].selected_slot_id = resp.slot

\* a portal booking was refused for a slot that an unconfirmed booking holds
C29_RefusedWitness ==
    /\ resp.op = "portal_book" /\ resp.result = "SlotUnavailable"
    /\ interviews[resp.iid].interview_status = AwaitingConfirmation

\* C30: an interview whose status is No Show has no_show_flag set and a
\* no_show_count of at least 1, and an interview whose no_show_flag is not set has
\* a no_show_count of 0.
C30_NoShowFieldsAgree ==
    \A iid \in DOMAIN interviews :
        /\ interviews[iid].interview_status = NoShow
           => interviews[iid].no_show_flag /\ interviews[iid].no_show_count >= 1
        /\ ~interviews[iid].no_show_flag => interviews[iid].no_show_count = 0
====
